---- MODULE Spec2Model ----
(***************************************************************************)
(* State-machine model of the CSkit consumer storefront:                   *)
(*   - the Session Store   (AuthProvider: login / logout / isLoggedIn),    *)
(*   - the Cart Store      (ConsumerDashboard: loadCart / addToCart /      *)
(*                          isInCart),                                     *)
(*   - the Catalog Fetcher (ConsumerDashboard: fetchProducts and its two   *)
(*                          await points),                                 *)
(*   - the Dashboard View  (searchTerm, filteredProducts, product dialog), *)
(*   - the Profile Editor  (handleProfileUpdate).                          *)
(* localStorage holds JSON text; JSON.stringify / JSON.parse are modelled  *)
(* as a serializer to and a parser of token sequences.                     *)
(***************************************************************************)
EXTENDS Integers, Sequences, FiniteSets, TLC

VARIABLES
    user,               \* AuthProvider state `user`                (auth.tsx:27)
    authLoaded,         \* the AuthProvider mount effect has run     (auth.tsx:30)
    localStorage,       \* persisted entries `user` and `cart`
    route,              \* current client-side route
    error,              \* an uncaught render error tore the tree down
    mounted,            \* the dashboard's mount effect has run      (page.tsx:90)
    cartCount,          \* page.tsx:29
    searchTerm,         \* page.tsx:30
    allProducts,        \* page.tsx:31
    displayedProducts,  \* page.tsx:32
    cart,               \* page.tsx:41
    selectedProduct,    \* page.tsx:42
    isLoading,          \* page.tsx:43
    inflight,           \* fetchProducts calls suspended at an await
    issued,             \* number of fetchProducts calls of this dashboard
    lastAuth,           \* history: the most recent of login / logout
    cartAtLoad,         \* history: the in-memory cart right after loadCart
    calls,              \* history: products passed to addToCart since mount
    lastOk,             \* history: the product list of the fetch that resolved last
    overlapped          \* history: two fetchProducts calls were in flight at once

vars == <<user, authLoaded, localStorage, route, error, mounted, cartCount,
          searchTerm, allProducts, displayedProducts, cart, selectedProduct,
          isLoading, inflight, issued, lastAuth, cartAtLoad, calls, lastOk,
          overlapped>>

authVars == <<user, authLoaded, lastAuth>>
dashVars == <<mounted, cartCount, searchTerm, allProducts, displayedProducts,
              cart, selectedProduct, isLoading, inflight, issued, cartAtLoad,
              calls, lastOk, overlapped>>

-----------------------------------------------------------------------------
(* Bounds of the model.                                                    *)

\* longest in-memory cart addToCart is applied to
MaxCart == 2
\* fetchProducts calls per mounted dashboard (mount + productsUpdated events)
MaxFetches == 2
\* distinct values Date.now() takes
MaxTime == 1

-----------------------------------------------------------------------------
(* JavaScript values.                                                      *)

Undefined == [type |-> "undefined"]
Null == [type |-> "null"]
Num(n) == [type |-> "number", num |-> n]
ObjV(fields) == [type |-> "object", fields |-> fields]
Arr(items) == [type |-> "array", items |-> items]

IsArray(v) == v.type = "array"

\* outcome of a call: it returns a value or throws
Return(v) == [returns |-> v]
Throw(e) == [throws |-> e]

\* v.length as the property read evaluates (page.tsx:62): a number for an
\* array, undefined for a number or a plain object, a TypeError for null.
JsLength(v) ==
    IF v.type = "array" THEN Return(Num(Len(v.items)))
    ELSE IF v.type \in {"null", "undefined"} THEN Throw("TypeError")
    ELSE Return(Undefined)

\* String.prototype.toLowerCase on the characters the model uses
LowerChar(c) ==
    CASE c = "A" -> "a"
      [] c = "B" -> "b"
      [] OTHER -> c

toLowerCase(s) == [i \in 1..Len(s) |-> LowerChar(s[i])]

\* String.prototype.includes
includes(s, t) ==
    \E k \in 0..Len(s) :
        /\ k + Len(t) <= Len(s)
        /\ SubSeq(s, k + 1, k + Len(t)) = t

-----------------------------------------------------------------------------
(* JSON text: a sequence of tokens.                                        *)

LBracket == [tok |-> "["]
RBracket == [tok |-> "]"]
Comma == [tok |-> ","]
Junk == [tok |-> "<"]
ValTok(v) == [tok |-> "value", val |-> v]

RECURSIVE JoinItems(_)
JoinItems(items) ==
    IF items = <<>> THEN <<>>
    ELSE IF Len(items) = 1 THEN <<ValTok(items[1])>>
    ELSE <<ValTok(items[1]), Comma>> \o JoinItems(Tail(items))

\* JSON.stringify of a scalar, an object or an array of such values
JSONstringify(v) ==
    IF IsArray(v) THEN <<LBracket>> \o JoinItems(v.items) \o <<RBracket>>
    ELSE <<ValTok(v)>>

\* JSON.parse: the parsed value, or a SyntaxError
JSONparse(text) ==
    IF Len(text) = 1 /\ text[1].tok = "value" THEN Return(text[1].val)
    ELSE IF Len(text) >= 2 /\ text[1] = LBracket /\ text[Len(text)] = RBracket
    THEN LET inner == SubSeq(text, 2, Len(text) - 1)
             n == Len(inner)
         IN  IF n = 0 THEN Return(Arr(<<>>))
             ELSE IF /\ n % 2 = 1
                     /\ \A i \in 1..n :
                            IF i % 2 = 1 THEN inner[i].tok = "value"
                            ELSE inner[i] = Comma
             THEN Return(Arr([i \in 1..((n + 1) \div 2) |-> inner[2 * i - 1].val]))
             ELSE Throw("SyntaxError")
    ELSE Throw("SyntaxError")

\* a localStorage entry: absent (getItem returns null) or a stored string
NoItem == [has |-> FALSE]
Item(text) == [has |-> TRUE, text |-> text]

\* truthiness of a getItem result: null and "" are falsy
Truthy(item) == item.has /\ item.text # <<>>

-----------------------------------------------------------------------------
(* Inputs.                                                                 *)

Product(id, name, price, category) ==
    ObjV([id |-> id, name |-> name, price |-> price, category |-> category])

P1 == Product(1, <<"A", "b">>, 10, "material")
P2 == Product(2, <<"b", "a">>, 20, "material")
P3 == Product(3, <<"a">>, 30, "machine")

Products == {P1, P2, P3}
ProductIds == {1, 2, 3}
Categories == {"material", "machine", "worker"}

\* listings the products endpoint serves
Listings == {<<P1, P2, P3>>, <<P3, P2, P1>>}

\* a JSON body that is no array, e.g. {"error": "..."}
ErrorObject == ObjV([error |-> "unavailable"])

\* response bodies: a listing, an error object, text that is not JSON
Bodies ==
    {JSONstringify(Arr(l)) : l \in Listings}
        \cup {JSONstringify(ErrorObject), <<Junk>>}

SearchTerms == {<<>>, <<"a">>, <<"A", "B">>, <<"B">>}

Emails == {"", "a@b.com"}
Usernames == {"", "alice"}
Times == 1..MaxTime

Routes == {"/", "/consumer", "/cart", "/profile"}

\* values found under the `cart` key when the application starts
StoredCarts ==
    {NoItem, Item(<<>>), Item(<<Junk>>), Item(<<LBracket, ValTok(P1)>>),
     Item(JSONstringify(Null)), Item(JSONstringify(Num(5))),
     Item(JSONstringify(ErrorObject)),
     Item(JSONstringify(Arr(<<>>))), Item(JSONstringify(Arr(<<P1>>))),
     Item(JSONstringify(Arr(<<P2, P2>>)))}

-----------------------------------------------------------------------------
(* Session Store (src/app/lib/auth.tsx).                                   *)

Returned(r) == "returns" \in DOMAIN r

\* the User record login fabricates
newUser(email, username, now) ==
    ObjV([id |-> ToString(now), email |-> email, username |-> username,
          role |-> "consumer"])

\* localStorage.setItem("user", JSON.stringify(newUser))
loginStorage(ls, u) == [ls EXCEPT !.user = Item(JSONstringify(u))]

\* faulty variant: the persisted record is not removed
logoutStorage_Keep(ls) == ls

\* faulty variant: localStorage.clear() instead of removing one key
logoutStorage_Clear(ls) == [user |-> NoItem, cart |-> NoItem]

\* localStorage.removeItem("user")
logoutStorage(ls) == [ls EXCEPT !.user = NoItem]

\* isLoggedIn(): !!localStorage.getItem("user")
isLoggedIn == Truthy(localStorage.user)

\* useState initial values of the dashboard (page.tsx:29-44)
NoOk == [some |-> FALSE]
EmptyBuckets == [material |-> <<>>, machine |-> <<>>, worker |-> <<>>]

DashInitial ==
    /\ mounted' = FALSE
    /\ cartCount' = Num(0)
    /\ searchTerm' = <<>>
    /\ allProducts' = Arr(<<>>)
    /\ displayedProducts' = EmptyBuckets
    /\ cart' = Arr(<<>>)
    /\ selectedProduct' = Null
    /\ isLoading' = TRUE
    /\ inflight' = <<>>
    /\ issued' = 0
    /\ cartAtLoad' = Arr(<<>>)
    /\ calls' = <<>>
    /\ lastOk' = NoOk
    /\ overlapped' = FALSE

\* the AuthProvider mount effect: restore the session from storage
AuthProviderMount ==
    /\ ~error
    /\ ~authLoaded
    /\ authLoaded' = TRUE
    /\ IF Truthy(localStorage.user)
       THEN LET r == JSONparse(localStorage.user.text)
            IN  IF Returned(r)
                THEN user' = r.returns /\ error' = error
                ELSE user' = user /\ error' = TRUE
       ELSE user' = user /\ error' = error
    /\ UNCHANGED <<localStorage, route, lastAuth>>
    /\ UNCHANGED dashVars

login(email, username) ==
    /\ ~error
    /\ \E now \in Times :
        LET u == newUser(email, username, now)
        IN  /\ user' = u
            /\ localStorage' = loginStorage(localStorage, u)
    /\ route' = "/consumer"
    /\ lastAuth' = "login"
    /\ UNCHANGED <<authLoaded, error>>
    /\ UNCHANGED dashVars

logout ==
    /\ ~error
    /\ user' = Null
    /\ localStorage' = logoutStorage(localStorage)
    /\ route' = "/"
    /\ lastAuth' = "logout"
    /\ DashInitial
    /\ UNCHANGED <<authLoaded, error>>

\* Profile Editor (src/unnamed/part_000): the form requires both fields
handleProfileUpdate(email, username) ==
    /\ route = "/profile"
    /\ user # Null
    /\ email # "" /\ username # ""
    /\ login(email, username)

\* the dashboard rendered without a user pushes the entry page
RedirectIfNoUser ==
    /\ ~error
    /\ route = "/consumer"
    /\ user = Null
    /\ route' = "/"
    /\ UNCHANGED <<localStorage, error>>
    /\ UNCHANGED authVars
    /\ UNCHANGED dashVars

\* client-side navigation to another page; leaving the dashboard unmounts it
Navigate(r) ==
    /\ ~error
    /\ r # route
    /\ route' = r
    /\ DashInitial
    /\ UNCHANGED <<localStorage, error>>
    /\ UNCHANGED authVars

\* a browser reload: in-memory state is lost, localStorage is kept
Reload ==
    /\ user' = Null
    /\ authLoaded' = FALSE
    /\ error' = FALSE
    /\ DashInitial
    /\ UNCHANGED <<localStorage, route, lastAuth>>

-----------------------------------------------------------------------------
(* Cart Store (src/app/consumer/page.tsx).                                 *)

\* an uncaught error while rendering: the component tree is torn down
Crash ==
    /\ error' = TRUE
    /\ DashInitial

\* loadCart(): the cart and counter it leaves, from the stored entry and the
\* current state
loadCart(storedCart, curCart, curCount) ==
    LET unchanged == [cart |-> curCart, cartCount |-> curCount]
        caught == [cart |-> Arr(<<>>), cartCount |-> Num(0)]
    IN  IF ~Truthy(storedCart) THEN unchanged
        ELSE LET parsed == JSONparse(storedCart.text)
             IN  IF ~Returned(parsed) THEN caught
                 ELSE LET parsedCart == parsed.returns
                          length == JsLength(parsedCart)
                      IN  IF ~Returned(length) THEN caught
                          ELSE [cart |-> parsedCart, cartCount |-> length.returns]

\* faulty variant: an entry with the product's id is not added again
updatedCart_Dedup(prevCart, product) ==
    IF \E i \in 1..Len(prevCart) : prevCart[i].fields.id = product.fields.id
    THEN prevCart
    ELSE Append(prevCart, product)

\* [...prevCart, product]
updatedCart(prevCart, product) == Append(prevCart, product)

\* faulty variant: the counter is not incremented
nextCount_Same(prevCount) == prevCount

\* prevCount + 1
nextCount(prevCount) ==
    IF prevCount.type = "number" THEN Num(prevCount.num + 1)
    ELSE [type |-> "NaN"]

\* cart.some((item) => item.id === productId)
isInCart(productId) ==
    IF IsArray(cart)
    THEN Return(\E i \in 1..Len(cart.items) : cart.items[i].fields.id = productId)
    ELSE Throw("TypeError")

addToCart(product) ==
    /\ ~error
    /\ mounted
    /\ IsArray(cart) => Len(cart.items) <= MaxCart
    /\ IF IsArray(cart)
       THEN /\ cart' = Arr(updatedCart(cart.items, product))
            /\ localStorage' =
                   [localStorage EXCEPT !.cart = Item(JSONstringify(cart'))]
            /\ cartCount' = nextCount(cartCount)
            /\ selectedProduct' = Null
            /\ calls' = Append(calls, product)
            /\ UNCHANGED <<error, mounted, searchTerm, allProducts,
                           displayedProducts, isLoading, inflight, issued,
                           cartAtLoad, lastOk, overlapped>>
       ELSE \* the spread of a non-iterable throws inside the state updater
            /\ Crash
            /\ UNCHANGED localStorage
    /\ UNCHANGED route
    /\ UNCHANGED authVars

-----------------------------------------------------------------------------
(* Catalog Fetcher.                                                        *)

\* data.filter((p) => p.category === category)
bucket(data, category) ==
    SelectSeq(data, LAMBDA p : p.fields.category = category)

partition(data) ==
    [material |-> bucket(data, "material"),
     machine |-> bucket(data, "machine"),
     worker |-> bucket(data, "worker")]

Without(f) == [g \in DOMAIN inflight \ {f} |-> inflight[g]]

\* fetchProducts() up to its first await: setIsLoading(true), fetch(...)
fetchProducts ==
    /\ isLoading' = TRUE
    /\ issued' = issued + 1
    /\ inflight' = [g \in DOMAIN inflight \cup {issued + 1} |->
                       IF g = issued + 1 THEN "fetch" ELSE inflight[g]]
    /\ overlapped' = (overlapped \/ DOMAIN inflight # {})

\* the mount effect: fetchProducts(); loadCart()
MountEffect ==
    /\ ~error
    /\ route = "/consumer"
    /\ user # Null
    /\ ~mounted
    /\ mounted' = TRUE
    /\ fetchProducts
    /\ LET l == loadCart(localStorage.cart, cart, cartCount)
       IN  /\ cart' = l.cart
           /\ cartCount' = l.cartCount
           /\ cartAtLoad' = l.cart
    /\ UNCHANGED <<localStorage, route, error, searchTerm, allProducts,
                   displayedProducts, selectedProduct, calls, lastOk>>
    /\ UNCHANGED authVars

\* the productsUpdated listener
handleProductsUpdated ==
    /\ ~error
    /\ mounted
    /\ issued < MaxFetches
    /\ fetchProducts
    /\ UNCHANGED <<localStorage, route, error, mounted, cartCount, searchTerm,
                   allProducts, displayedProducts, cart, selectedProduct,
                   cartAtLoad, calls, lastOk>>
    /\ UNCHANGED authVars

\* await fetch(...) resolves: the call goes on to await response.json()
ResponseArrives(f) ==
    /\ ~error
    /\ f \in DOMAIN inflight
    /\ inflight[f] = "fetch"
    /\ inflight' = [inflight EXCEPT ![f] = "json"]
    /\ UNCHANGED <<localStorage, route, error, mounted, cartCount, searchTerm,
                   allProducts, displayedProducts, cart, selectedProduct,
                   isLoading, issued, cartAtLoad, calls, lastOk, overlapped>>
    /\ UNCHANGED authVars

\* await fetch(...) rejects: catch, then finally
FetchRejects(f) ==
    /\ ~error
    /\ f \in DOMAIN inflight
    /\ inflight[f] = "fetch"
    /\ inflight' = Without(f)
    /\ isLoading' = FALSE
    /\ UNCHANGED <<localStorage, route, error, mounted, cartCount, searchTerm,
                   allProducts, displayedProducts, cart, selectedProduct,
                   issued, cartAtLoad, calls, lastOk, overlapped>>
    /\ UNCHANGED authVars

\* the state fetchProducts leaves once response.json() has settled on `body`
\* (page.tsx:75-87)
afterJson(body, prevAll, prevDisplayed) ==
    LET parsed == JSONparse(body)
    IN  IF ~Returned(parsed)
        THEN [allProducts |-> prevAll, displayedProducts |-> prevDisplayed]
        ELSE LET data == parsed.returns
             IN  [allProducts |-> data,
                  displayedProducts |->
                      IF IsArray(data) THEN partition(data.items)
                      ELSE prevDisplayed]

\* the body is a JSON sequence of Product records
IsListing(body) ==
    LET parsed == JSONparse(body)
    IN  Returned(parsed) /\ IsArray(parsed.returns)

\* await response.json() settles
JsonSettles(f, body) ==
    /\ ~error
    /\ f \in DOMAIN inflight
    /\ inflight[f] = "json"
    /\ inflight' = Without(f)
    /\ LET after == afterJson(body, allProducts, displayedProducts)
       IN  /\ allProducts' = after.allProducts
           /\ displayedProducts' = after.displayedProducts
    /\ lastOk' = IF IsListing(body)
                 THEN [some |-> TRUE, data |-> JSONparse(body).returns]
                 ELSE lastOk
    /\ isLoading' = FALSE
    /\ UNCHANGED <<localStorage, route, error, mounted, cartCount, searchTerm,
                   cart, selectedProduct, issued, cartAtLoad, calls, overlapped>>
    /\ UNCHANGED authVars

-----------------------------------------------------------------------------
(* Dashboard View.                                                         *)

\* faulty variant: the search term is not lower-cased
matches_RawTerm(name, term) == includes(toLowerCase(name), term)

\* product.name.toLowerCase().includes(searchTerm.toLowerCase())
matches(name, term) == includes(toLowerCase(name), toLowerCase(term))

filteredProducts(category) ==
    SelectSeq(displayedProducts[category],
              LAMBDA product : matches(product.fields.name, searchTerm))

\* the search input's onChange
setSearchTerm(term) ==
    /\ ~error
    /\ mounted
    /\ ~isLoading
    /\ term # searchTerm
    /\ searchTerm' = term
    /\ UNCHANGED <<localStorage, route, error, mounted, cartCount, allProducts,
                   displayedProducts, cart, selectedProduct, isLoading, inflight,
                   issued, cartAtLoad, calls, lastOk, overlapped>>
    /\ UNCHANGED authVars

\* a click on a product card; the dialog then renders isInCart(selectedProduct.id)
openProductDialog(product) ==
    /\ ~error
    /\ mounted
    /\ ~isLoading
    /\ \E c \in Categories :
           \E i \in 1..Len(filteredProducts(c)) : filteredProducts(c)[i] = product
    /\ IF Returned(isInCart(product.fields.id))
       THEN /\ selectedProduct' = product
            /\ UNCHANGED <<error, mounted, cartCount, searchTerm, allProducts,
                           displayedProducts, cart, isLoading, inflight, issued,
                           cartAtLoad, calls, lastOk, overlapped>>
       ELSE Crash
    /\ UNCHANGED <<localStorage, route>>
    /\ UNCHANGED authVars

\* the dialog's onOpenChange
closeDialog ==
    /\ ~error
    /\ mounted
    /\ ~isLoading
    /\ selectedProduct # Null
    /\ selectedProduct' = Null
    /\ UNCHANGED <<localStorage, route, error, mounted, cartCount, searchTerm,
                   allProducts, displayedProducts, cart, isLoading, inflight,
                   issued, cartAtLoad, calls, lastOk, overlapped>>
    /\ UNCHANGED authVars

\* the dialog's action button: "View Cart" or "Add to Cart"
dialogAction ==
    /\ ~error
    /\ mounted
    /\ ~isLoading
    /\ selectedProduct # Null
    /\ IF isInCart(selectedProduct.fields.id) = Return(TRUE)
       THEN /\ route' = "/cart"
            /\ DashInitial
            /\ UNCHANGED <<localStorage, error>>
            /\ UNCHANGED authVars
       ELSE addToCart(selectedProduct)

-----------------------------------------------------------------------------
(* Specifications.                                                         *)

Init ==
    /\ user = Null
    /\ authLoaded = FALSE
    /\ localStorage \in
           [user : {NoItem, Item(JSONstringify(newUser("a@b.com", "alice", 1)))},
            cart : StoredCarts]
    /\ route \in {"/", "/consumer"}
    /\ error = FALSE
    /\ mounted = FALSE
    /\ cartCount = Num(0)
    /\ searchTerm = <<>>
    /\ allProducts = Arr(<<>>)
    /\ displayedProducts = EmptyBuckets
    /\ cart = Arr(<<>>)
    /\ selectedProduct = Null
    /\ isLoading = TRUE
    /\ inflight = <<>>
    /\ issued = 0
    /\ lastAuth = "none"
    /\ cartAtLoad = Arr(<<>>)
    /\ calls = <<>>
    /\ lastOk = NoOk
    /\ overlapped = FALSE

Next ==
    \/ AuthProviderMount
    \/ \E e \in Emails, u \in Usernames : login(e, u)
    \/ logout
    \/ \E e \in Emails, u \in Usernames : handleProfileUpdate(e, u)
    \/ RedirectIfNoUser
    \/ \E r \in Routes : Navigate(r)
    \/ Reload
    \/ MountEffect
    \/ handleProductsUpdated
    \/ \E f \in 1..MaxFetches : ResponseArrives(f)
    \/ \E f \in 1..MaxFetches : FetchRejects(f)
    \/ \E f \in 1..MaxFetches, body \in Bodies : JsonSettles(f, body)
    \/ \E term \in SearchTerms : setSearchTerm(term)
    \/ \E p \in Products : openProductDialog(p)
    \/ closeDialog
    \/ dialogAction
    \/ \E p \in Products : addToCart(p)

Spec == Init /\ [][Next]_vars

\* The three specifications below are Spec with part of the environment held
\* still, so that each store can be explored with wider inputs: every
\* behaviour of each is a behaviour of Spec.

\* Session Store: every login input; the cart persisted by one product
SessionInit ==
    /\ Init
    /\ localStorage.cart \in {NoItem, Item(JSONstringify(Arr(<<P2, P2>>)))}

SessionNext ==
    \/ AuthProviderMount
    \/ \E e \in Emails, u \in Usernames : login(e, u)
    \/ logout
    \/ \E e \in Emails, u \in Usernames : handleProfileUpdate(e, u)
    \/ RedirectIfNoUser
    \/ \E r \in Routes : Navigate(r)
    \/ Reload
    \/ MountEffect
    \/ addToCart(P1)

SessionSpec == SessionInit /\ [][SessionNext]_vars

\* Cart Store: every stored cart and every product; one user, one listing
CartInit ==
    /\ Init
    /\ localStorage.user = NoItem
    /\ route = "/"

CartNext ==
    \/ AuthProviderMount
    \/ login("a@b.com", "alice")
    \/ logout
    \/ RedirectIfNoUser
    \/ \E r \in Routes : Navigate(r)
    \/ Reload
    \/ MountEffect
    \/ \E f \in 1..MaxFetches : ResponseArrives(f)
    \/ \E f \in 1..MaxFetches : JsonSettles(f, JSONstringify(Arr(<<P1, P2, P3>>)))
    \/ \E p \in Products : openProductDialog(p)
    \/ closeDialog
    \/ dialogAction
    \/ \E p \in Products : addToCart(p)

CartSpec == CartInit /\ [][CartNext]_vars

\* Catalog Fetcher and Dashboard View: every response and every search term;
\* one user, no stored cart
CatalogInit ==
    /\ Init
    /\ localStorage.user = NoItem
    /\ localStorage.cart = NoItem
    /\ route = "/"

CatalogNext ==
    \/ AuthProviderMount
    \/ login("a@b.com", "alice")
    \/ logout
    \/ RedirectIfNoUser
    \/ \E r \in Routes : Navigate(r)
    \/ Reload
    \/ MountEffect
    \/ handleProductsUpdated
    \/ \E f \in 1..MaxFetches : ResponseArrives(f)
    \/ \E f \in 1..MaxFetches : FetchRejects(f)
    \/ \E f \in 1..MaxFetches, body \in Bodies : JsonSettles(f, body)
    \/ \E term \in SearchTerms : setSearchTerm(term)

CatalogSpec == CatalogInit /\ [][CatalogNext]_vars

-----------------------------------------------------------------------------
(* Properties.                                                             *)

\* C1: after any sequence of login and logout calls, isLoggedIn() is true if
\* the most recent of them was login and false if it was logout.
C1_IsLoggedInFollowsLastCall ==
    /\ lastAuth = "login" => isLoggedIn
    /\ lastAuth = "logout" => ~isLoggedIn

\* a login with an empty username (no validation) after which isLoggedIn() holds
C1_Witness ==
    /\ lastAuth = "login"
    /\ user # Null
    /\ user.fields.username = ""
    /\ isLoggedIn

\* C2: starting from an empty cart, N addToCart calls leave an in-memory cart
\* of exactly the N products passed, in call order, duplicates included.
C2_AddNYieldsLengthN ==
    (mounted /\ cartAtLoad = Arr(<<>>)) =>
        /\ IsArray(cart)
        /\ Len(cart.items) = Len(calls)
        /\ cart.items = calls

\* three additions to an empty cart, the first two of one product id
C2_Witness ==
    /\ mounted
    /\ cartAtLoad = Arr(<<>>)
    /\ Len(calls) = 3
    /\ calls[1].fields.id = calls[2].fields.id
    /\ Len(cart.items) = 3

\* C3: logout() leaves the persisted cart entry as it was; it clears the
\* persisted user entry and the in-memory user.
C3_LogoutKeepsCart ==
    [][logout =>
          /\ localStorage'.cart = localStorage.cart
          /\ localStorage'.user = NoItem
          /\ user' = Null]_vars

\* a logout with a cart of three entries still persisted
C3_Witness ==
    /\ lastAuth = "logout"
    /\ user = Null
    /\ ~isLoggedIn
    /\ localStorage.cart = Item(JSONstringify(Arr(<<P2, P2, P1>>)))

\* C4: right after every addToCart(product), the entry stored under `cart`
\* parses to the updated in-memory cart, which is the previous in-memory cart
\* with the product appended.
C4_AddPersistsCart ==
    [][\A p \in Products :
          addToCart(p) =>
              /\ IsArray(cart)
              /\ cart' = Arr(Append(cart.items, p))
              /\ localStorage'.cart.has
              /\ JSONparse(localStorage'.cart.text) = Return(cart')]_vars

\* some entry of the in-memory cart sequence has this id
HasEntryWithId(id) ==
    /\ IsArray(cart)
    /\ id \in {cart.items[i].fields.id : i \in 1..Len(cart.items)}

\* C5: on a mounted dashboard, isInCart(id) returns true if and only if some
\* entry of the in-memory cart has that id.
C5_IsInCartIffMember ==
    mounted => \A id \in ProductIds : isInCart(id) = Return(HasEntryWithId(id))

\* term occurs in name at some offset, compared character by character
\* without regard to case
ContainsIgnoreCase(name, term) ==
    \E k \in 0..(Len(name) - Len(term)) :
        \A j \in 1..Len(term) : LowerChar(name[k + j]) = LowerChar(term[j])

\* the products whose name contains the term, in the order given
RECURSIVE Matching(_, _)
Matching(products, term) ==
    IF products = <<>> THEN <<>>
    ELSE (IF ContainsIgnoreCase(Head(products).fields.name, term)
          THEN <<Head(products)>>
          ELSE <<>>) \o Matching(Tail(products), term)

\* C6: filteredProducts(category) is the category's bucket restricted, in
\* bucket order, to the products whose name contains the search term as a
\* case-insensitive substring; with an empty term it is the whole bucket.
C6_FilterIsCaseInsensitiveSubstring ==
    \A c \in Categories :
        /\ filteredProducts(c) = Matching(displayedProducts[c], searchTerm)
        /\ searchTerm = <<>> => filteredProducts(c) = displayedProducts[c]

\* an upper-case term that keeps the second of two bucket entries only
C6_Witness ==
    /\ mounted
    /\ searchTerm = <<"A", "B">>
    /\ displayedProducts["material"] = <<P2, P1>>
    /\ filteredProducts("material") = <<P1>>

\* C7: a fetch that fails (the request rejects, the body does not parse, or
\* the parsed body is no sequence of Product records) changes neither
\* allProducts nor displayedProducts.
C7_FailedFetchKeepsCatalog ==
    [][(\E f \in 1..MaxFetches :
           \/ FetchRejects(f)
           \/ \E body \in Bodies : ~IsListing(body) /\ JsonSettles(f, body))
       => UNCHANGED <<allProducts, displayedProducts>>]_vars

\* C8: once overlapping fetches have all settled, the catalog state is the
\* result of the fetch that resolved last with a product list.
C8_LastResolvedWins ==
    (mounted /\ overlapped /\ DOMAIN inflight = {} /\ lastOk.some) =>
        /\ allProducts = lastOk.data
        /\ displayedProducts = partition(lastOk.data.items)

\* the entry is present but is no JSON sequence of Product records
Malformed(item) == item.has /\ ~IsListing(item.text)

\* C9: after loadCart() the in-memory cart is a sequence, and it is the empty
\* sequence with a counter of 0 when the stored entry is present but is no
\* JSON sequence of Product records.
C9_LoadCartResetsMalformed ==
    [][MountEffect =>
          /\ IsArray(cart')
          /\ Malformed(localStorage.cart) =>
                 (cart' = Arr(<<>>) /\ cartCount' = Num(0))]_vars

\* cart.length: the number of entries of the cart sequence (undefined, as
\* the property read gives, for a cart that is a number or a plain object)
CartLength == IF IsArray(cart) THEN Num(Len(cart.items)) ELSE Undefined

====
